---- MODULE Spec2Model ----
(***************************************************************************)
(* A model of melange's consumption and dispatch pipeline:                 *)
(*   - SimpleConsumer (src/melange/consumer.py): consume_loop,             *)
(*     consume_event and _dispatch_message, with the dedup cache;          *)
(*   - the queue the ElasticMQ backend polls                               *)
(*     (src/melange/backends/sqs/elasticmq.py): visibility timeout,        *)
(*     acknowledge, and the redrive policy declare_queue configures;       *)
(*   - Event construction (src/geeteventbus/event.py);                     *)
(*   - the backend's declare_queue, publish and retrieve_messages, and     *)
(*     the MessagePublisher and MessageConsumer of melange.aws.            *)
(* Strings are sequences of tokens, so that the dedup key is built by      *)
(* concatenation as the code builds it.                                    *)
(***************************************************************************)
EXTENDS Integers, Sequences, FiniteSets, TLC

VARIABLES
    consumers,  \* the SimpleConsumer instances that run a consume_loop
    limit,      \* how many messages are ever published to the queue
    hasDLQ,     \* whether declare_queue was given a dead_letter_queue_name
    visible,    \* messages of the queue a retrieval can return
    inflight,   \* messages retrieved and hidden until the visibility timeout
    dlq,        \* messages of the dead-letter queue
    acked,      \* messages removed by acknowledge
    rc,         \* receive count of each message (kept under a redrive policy)
    cache,      \* the dedup cache: the set of stored keys
    pc,         \* each consumer's place in consume_loop
    batch,      \* each consumer's retrieved messages not yet dispatched
    exc,        \* the call whose error consume_loop caught in this iteration
    ev,         \* what the latest dispatch did, cleared when a retrieval starts
    hooks,      \* the hooks consume_loop was given and their calls in each consumer's iteration
    handled,    \* how many times the handler returned for each message
    event,      \* the latest Event construction: its arguments and its result
    registry,   \* the types a Consumer has a handler for, in registration order
    accepted,   \* the latest accepts call: its argument, the registry, its result
    normalized, \* the latest _construct_message call: the raw message, the result
    retrieved,  \* the latest retrieve_messages call: the raw batch, the result
    fifoQueue,  \* the strict-ordering queue: its messages and its dedup ids
    fifoLoop,   \* the publish-then-drain loop: what it sent, holds and received
    sqs,        \* the queues the infrastructure holds, by name
    sns,        \* the subscriptions of queues to topics, with their filter policy
    declared,   \* the declare_queue calls made so far and what they returned
    forwarded,  \* the event published since the latest declare_queue: the copies queues got
    published,  \* the latest publish call: its arguments, its calls, its result
    legacyQueue, \* the queue MessageConsumer polls
    legacy      \* the latest MessageConsumer.consume_event: what it did

\* the state of the components beside the consume loop and its queue
registryVars == <<registry, accepted>>

normalizerVars == <<normalized, retrieved>>

fifoVars == <<fifoQueue, fifoLoop>>

infraVars == <<sqs, sns, declared, forwarded>>

publishVars == <<published>>

legacyVars == <<legacyQueue, legacy>>

backendVars ==
    <<registryVars, normalizerVars, fifoVars, infraVars, publishVars, legacyVars>>

vars == <<consumers, limit, hasDLQ, visible, inflight, dlq, acked, rc, cache, pc, batch, exc, ev,
         hooks, handled, event, backendVars>>

queueVars == <<visible, inflight, dlq, acked, rc>>

loopVars == <<consumers, limit, hasDLQ, queueVars, cache, pc, batch, exc, ev, hooks>>

----------------------------------------------------------------------------
(* Bounds and program constants *)

\* number of distinct messages ever published to the queue
NumMsgs == 2

\* the same where the queue has a redrive policy, and where two consumers poll
NumRedriveMsgs == 1

NumSharedMsgs == 1

\* a policy that lets one more delivery through than the code's
MaxReceiveCountOffByOne == 4 + 1

\* maxReceiveCount of the redrive policy
MaxReceiveCount == 4

\* default max_number_of_messages of the backend
MaxNumberOfMessages == 10

Msgs == 1..NumMsgs

\* the consumers of the model: A and A2 are of one class, B of another
ConsumerIds == {"A", "A2", "B"}

----------------------------------------------------------------------------
(* Strings *)

\* get_fully_qualified_name(self): the dotted class path of the consumer
GetFullyQualifiedName(c) ==
    IF c \in {"A", "A2"} THEN <<"app", ".", "PaymentConsumer">>
                          ELSE <<"app", ".", "AuditConsumer">>

\* message.message_id: the identifier the queue gave the message (no dots)
MessageId(m) == <<m>>

\* a key built from the message id alone, without the consumer's identity
MessageKeyNoIdentity(c, m) == <<".">> \o MessageId(m)

\* message_key = get_fully_qualified_name(self) + "." + message.message_id
MessageKey(c, m) == GetFullyQualifiedName(c) \o <<".">> \o MessageId(m)

AllKeys == {MessageKey(c, m) : c \in ConsumerIds, m \in Msgs}

----------------------------------------------------------------------------
(* _dispatch_message, as a function of the cache and of what its calls do *)

\* what the serializer, the handler, the cache and the backend do in one dispatch
DispatchInputs ==
    [deser : BOOLEAN, handler : BOOLEAN, store : BOOLEAN, ack : BOOLEAN]

\* the try block that catches an error raised at a call site
CatcherNoPerMessageTry(site) ==
    CASE site \in {"process", "store"} -> "_dispatch_message"
      [] OTHER -> "consume_loop"

CatcherDeserializeOutsideTry(site) ==
    CASE site \in {"process", "store"} -> "_dispatch_message"
      [] site = "acknowledge" -> "consume_event"
      [] OTHER -> "consume_loop"

CatcherNoLoopTry(site) ==
    CASE site \in {"process", "store"} -> "_dispatch_message"
      [] site \in {"deserialize", "acknowledge"} -> "consume_event"
      [] OTHER -> "caller"

Catcher(site) ==
    CASE site \in {"process", "store"} -> "_dispatch_message"
      [] site \in {"deserialize", "acknowledge"} -> "consume_event"
      [] site \in {"get_queue", "retrieve_messages"} -> "consume_loop"

\* DedupCache.__contains__ and DedupCache.store: a set of keys
CacheContains(cacheNow, key) == key \in cacheNow

\* a store that returns and keeps nothing
CacheStoreDropsKey(cacheNow, key) == cacheNow

CacheStore(cacheNow, key) == cacheNow \cup {key}

\* message_key in self.cache
InCacheByMessageId(c, m, cacheNow) == CacheContains(cacheNow, MessageId(m))

InCache(c, m, cacheNow) == CacheContains(cacheNow, MessageKey(c, m))

\* successful = True is reached only when process returned
SuccessfulAlways(handlerResult) == TRUE

Successful(handlerResult) == handlerResult = "ok"

\* self.cache.store(message_key, message_key), when the store does not fail
StoreKeyMessageIdOnly(c, m, cacheNow) == CacheStore(cacheNow, MessageId(m))

StoreKey(c, m, cacheNow) == CacheStore(cacheNow, MessageKey(c, m))

\* if successful: self._backend.acknowledge(message)
ShouldAcknowledgeAlways(successful) == TRUE

ShouldAcknowledge(successful) == successful

NoEv ==
    [kind |-> "none", c |-> "-", m |-> 0, deser |-> "none", hit |-> FALSE,
     handler |-> "none", store |-> "none", ack |-> "none", escaped |-> "none"]

\* the part of _dispatch_message inside the try block: the dedup check, the
\* handler and the cache store. Returns the handler's and the store's results,
\* the flag `successful`, the error that left the block and the cache after it.
DispatchTry(c, m, cacheNow, in) ==
    LET hit == InCache(c, m, cacheNow)
        handler == IF hit THEN "none" ELSE IF in.handler THEN "ok" ELSE "raise"
        reachedStore == ~hit /\ handler = "ok"
        store == IF ~reachedStore THEN "none" ELSE IF in.store THEN "ok" ELSE "raise"
        raisedAt == IF handler = "raise" THEN "process"
                    ELSE IF store = "raise" THEN "store" ELSE "none"
        left == IF raisedAt # "none" /\ Catcher(raisedAt) # "_dispatch_message"
                THEN raisedAt ELSE "none"
    IN  [hit |-> hit, handler |-> handler, store |-> store,
         successful |-> ~hit /\ Successful(handler),
         left |-> left,
         cache |-> IF store = "ok" THEN StoreKey(c, m, cacheNow) ELSE cacheNow]

\* _dispatch_message(message): the record of what it did, and the cache after it
DispatchMessage(c, m, cacheNow, in) ==
    IF ~in.deser
    THEN [NoEv EXCEPT !.kind = "dispatch", !.c = c, !.m = m, !.deser = "raise",
                      !.escaped = "deserialize"] @@ [cache |-> cacheNow]
    ELSE
    LET t == DispatchTry(c, m, cacheNow, in)
        callsAck == t.left = "none" /\ ShouldAcknowledge(t.successful)
        ack == IF ~callsAck THEN "none" ELSE IF in.ack THEN "ok" ELSE "raise"
    IN  [kind |-> "dispatch", c |-> c, m |-> m, deser |-> "ok", hit |-> t.hit,
         handler |-> t.handler, store |-> t.store, ack |-> ack,
         escaped |-> IF t.left # "none" THEN t.left
                     ELSE IF ack = "raise" THEN "acknowledge" ELSE "none",
         cache |-> t.cache]

\* the record of a dispatch without the cache
EvOf(out) == [f \in DOMAIN NoEv |-> out[f]]

----------------------------------------------------------------------------
(* The queue *)

\* acknowledge(message): message.metadata.delete() removes it from the queue
Acknowledge(m) ==
    IF m \in visible \cup inflight
    THEN /\ visible' = visible \ {m}
         /\ inflight' = inflight \ {m}
         /\ acked' = acked \cup {m}
         /\ UNCHANGED <<dlq, rc>>
    ELSE UNCHANGED queueVars

\* the orders in which a retrieval can return the set S
Orders(S) ==
    {s \in [1..Cardinality(S) -> S] : \A i, j \in 1..Cardinality(S) : s[i] = s[j] => i = j}

\* the sets of messages one receive_messages call can take
Receivable ==
    LET n == IF Cardinality(visible) < MaxNumberOfMessages
             THEN Cardinality(visible) ELSE MaxNumberOfMessages
    IN  {S \in SUBSET visible : Cardinality(S) = n}

\* the messages of S the redrive policy moves to the dead-letter queue
Redriven(S) == IF hasDLQ THEN {m \in S : rc[m] >= MaxReceiveCount} ELSE {}

\* queue.receive_messages(...): S leaves the visible messages; those over the
\* redrive bound go to the dead-letter queue, the others are delivered
Receive(S) ==
    /\ visible' = visible \ S
    /\ inflight' = inflight \cup (S \ Redriven(S))
    /\ dlq' = dlq \cup Redriven(S)
    /\ rc' = [m \in Msgs |-> IF hasDLQ /\ m \in S \ Redriven(S) THEN rc[m] + 1 ELSE rc[m]]
    /\ UNCHANGED acked

----------------------------------------------------------------------------
(* Event construction (src/geeteventbus/event.py) *)

\* Python values, each with the name of its type
PyNone == [type |-> "NoneType", val |-> "None"]

PyStr(v) == [type |-> "str", val |-> v]

\* the values given as `ordered`: None, strings, and values of other types
OrderedValues ==
    {PyNone, PyStr("k1"), PyStr(""),
     [type |-> "int", val |-> "5"], [type |-> "list", val |-> "[]"],
     [type |-> "bool", val |-> "True"]}

Topics == {"t1", "t2", "t3"}

EventTypeNames == {"Default", "OrderCreated", "OrderCancelled"}

EventVersions == {PyNone, [type |-> "int", val |-> "1"]}

\* type(x): the type object of a value
TypeOf(x) == [type |-> "type", val |-> x.type]

\* a + b where a is a str: a str when b is a str, TypeError otherwise
StrPlus(a, b) ==
    IF b.type = "str"
    THEN [raised |-> "none", value |-> PyStr(<<a.val, b.val>>)]
    ELSE [raised |-> "TypeError", value |-> PyNone]

NoObj ==
    [made |-> FALSE, topic |-> "-", event_type_name |-> "-", ordered |-> PyNone,
     event_version |-> PyNone]

NoEvent ==
    [called |-> FALSE, cls |-> "-", explicit |-> FALSE, topic |-> "-",
     event_type_name |-> "-", ordered |-> PyNone, event_version |-> PyNone,
     raised |-> "none", obj |-> NoObj]

\* the event classes (variants) and the event_type_name each has as its
\* class attribute; Event itself has 'Default', a subclass that sets none
\* inherits it
EventClasses ==
    [Event |-> "Default", OrderCreated |-> "OrderCreated",
     OrderCancelled |-> "OrderCancelled", Untitled |-> "Default"]

\* the default of the event_type_name parameter of __init__
DefaultEventTypeName == "Default"

\* cls.get_event_type_name()
GetEventTypeName(cls) == EventClasses[cls]

\* Event.__init__(topic, event_type_name, ordered, event_version): the error it
\* raises, if any, and the object it makes otherwise
EventNew(topic, event_type_name, ordered, event_version) ==
    LET self == [made |-> TRUE, topic |-> topic, event_type_name |-> event_type_name,
                 ordered |-> ordered, event_version |-> event_version]
        logged == StrPlus(PyStr("Invalid type"), TypeOf(self.ordered))
    IN  IF self.ordered # PyNone /\ self.ordered.type # "str"
        THEN IF logged.raised # "none"
             THEN [raised |-> logged.raised, obj |-> NoObj]
             ELSE [raised |-> "ValueError", obj |-> NoObj]
        ELSE [raised |-> "none", obj |-> self]

----------------------------------------------------------------------------
(* The hooks of consume_loop *)

\* what a hook argument of consume_loop can be: None, a callable that
\* returns, a callable that raises
HookKinds == {"None", "returns", "raises"}

\* no hook was called in the iteration
NoCalls ==
    [ran |-> FALSE, on_exception |-> 0, arg |-> "none", after_consume |-> 0,
     leaving |-> FALSE]

\* consume_loop(queue_name, on_exception, after_consume), no iteration run
HooksGiven(on_exception, after_consume) ==
    [on_exception |-> on_exception, after_consume |-> after_consume,
     calls |-> [c \in ConsumerIds |-> NoCalls]]

\* a hook that is never called
HookCallsNever(hook) == 0

\* `if on_exception: on_exception(e)`, `if after_consume: after_consume()`:
\* the number of calls made
HookCalls(hook) == IF hook # "None" THEN 1 ELSE 0

\* whether the call of the hook raises
HookOutcomes(hook) == {hook = "raises"}

----------------------------------------------------------------------------
(* Actions *)

\* queue_publish: a new message becomes visible in the queue
Publish(m) ==
    /\ m <= limit
    /\ m \notin visible \cup inflight \cup dlq \cup acked
    /\ visible' = visible \cup {m}
    /\ UNCHANGED <<handled, event, hooks, backendVars>>
    /\ UNCHANGED <<ev, consumers, limit, hasDLQ, inflight, dlq, acked, rc, cache, pc, batch, exc>>

\* the visibility timeout of a retrieved message ends
VisibilityTimeout(m) ==
    /\ m \in inflight
    /\ inflight' = inflight \ {m}
    /\ visible' = visible \cup {m}
    /\ UNCHANGED <<handled, event, hooks, backendVars>>
    /\ UNCHANGED <<ev, consumers, limit, hasDLQ, dlq, acked, rc, cache, pc, batch, exc>>

\* a cache entry reaches the end of its retention
Expire(k) ==
    /\ k \in cache
    /\ cache' = cache \ {k}
    /\ UNCHANGED <<handled, event, hooks, backendVars>>
    /\ UNCHANGED <<ev, consumers, limit, hasDLQ, queueVars, pc, batch, exc>>

\* consume_event up to the for loop, get_queue or retrieve_messages raising
PollRaises(c) ==
    /\ c \in consumers
    /\ pc[c] = "poll"
    /\ \E site \in {"get_queue", "retrieve_messages"} :
        /\ exc' = [exc EXCEPT ![c] = site]
        /\ pc' = [pc EXCEPT ![c] = IF Catcher(site) = "consume_loop" THEN "except" ELSE "exited"]
    /\ ev' = NoEv
    /\ hooks' = [hooks EXCEPT !.calls[c] = [NoCalls EXCEPT !.ran = TRUE]]
    /\ UNCHANGED <<handled, event, backendVars>>
    /\ UNCHANGED <<consumers, limit, hasDLQ, queueVars, cache, batch>>

\* consume_event up to the for loop: the retrieval returns a batch
PollReturns(c) ==
    /\ c \in consumers
    /\ pc[c] = "poll"
    /\ \E S \in Receivable :
        /\ Receive(S)
        /\ \E s \in Orders(S \ Redriven(S)) :
            /\ batch' = [batch EXCEPT ![c] = s]
            /\ pc' = [pc EXCEPT ![c] = IF s = <<>> THEN "finally" ELSE "dispatch"]
    /\ exc' = [exc EXCEPT ![c] = "none"]
    /\ ev' = NoEv
    /\ hooks' = [hooks EXCEPT !.calls[c] = [NoCalls EXCEPT !.ran = TRUE]]
    /\ UNCHANGED <<handled, event, backendVars>>
    /\ UNCHANGED <<consumers, limit, hasDLQ, cache>>

\* one turn of the for loop of consume_event: _dispatch_message on the next
\* message of the batch, an error it raises caught and logged
Dispatch(c) ==
    /\ c \in consumers
    /\ pc[c] = "dispatch"
    /\ batch[c] # <<>>
    /\ LET m == Head(batch[c]) IN
       \E in \in DispatchInputs :
        /\ LET out == DispatchMessage(c, m, cache, in)
               frame == IF out.escaped = "none" THEN "none" ELSE Catcher(out.escaped)
           IN  /\ cache' = out.cache
               /\ ev' = EvOf(out)
               /\ IF out.ack = "ok" THEN Acknowledge(m) ELSE UNCHANGED queueVars
               /\ IF frame \in {"none", "_dispatch_message", "consume_event"}
                  THEN /\ batch' = [batch EXCEPT ![c] = Tail(batch[c])]
                       /\ pc' = [pc EXCEPT ![c] =
                                    IF Tail(batch[c]) = <<>> THEN "finally" ELSE "dispatch"]
                       /\ UNCHANGED exc
                  ELSE /\ batch' = [batch EXCEPT ![c] = <<>>]
                       /\ pc' = [pc EXCEPT ![c] =
                                    IF frame = "consume_loop" THEN "except" ELSE "exited"]
                       /\ exc' = [exc EXCEPT ![c] = out.escaped]
    /\ UNCHANGED <<consumers, limit, hasDLQ, handled, event, hooks, backendVars>>

\* the except clause of consume_loop: the error is logged and on_exception,
\* if given, called with it; an error on_exception raises leaves the loop
\* once the finally clause has run
Except(c) ==
    /\ c \in consumers
    /\ pc[c] = "except"
    /\ pc' = [pc EXCEPT ![c] = "finally"]
    /\ \E raises \in HookOutcomes(hooks.on_exception) :
        hooks' = [hooks EXCEPT !.calls[c] =
                     [@ EXCEPT !.on_exception = @ + HookCalls(hooks.on_exception),
                               !.arg = IF hooks.on_exception # "None" THEN exc[c] ELSE @,
                               !.leaving = raises]]
    /\ UNCHANGED <<handled, event, backendVars>>
    /\ UNCHANGED <<ev, consumers, limit, hasDLQ, queueVars, cache, batch, exc>>

\* the finally clause of consume_loop: after_consume, if given, is called;
\* then the next iteration, unless an error of a hook leaves the loop
Finally(c) ==
    /\ c \in consumers
    /\ pc[c] = "finally"
    /\ \E raises \in HookOutcomes(hooks.after_consume) :
        /\ hooks' = [hooks EXCEPT !.calls[c].after_consume =
                                     @ + HookCalls(hooks.after_consume)]
        /\ pc' = [pc EXCEPT ![c] = IF raises \/ hooks.calls[c].leaving
                                   THEN "exited" ELSE "poll"]
    /\ UNCHANGED <<handled, event, backendVars>>
    /\ UNCHANGED <<ev, consumers, limit, hasDLQ, queueVars, cache, batch, exc>>

\* an Event is constructed
EventConstruct(topic, event_type_name, ordered, event_version) ==
    /\ LET r == EventNew(topic, event_type_name, ordered, event_version)
       IN  event' = [called |-> TRUE, cls |-> "Event", explicit |-> TRUE,
                     topic |-> topic,
                     event_type_name |-> event_type_name, ordered |-> ordered,
                     event_version |-> event_version, raised |-> r.raised,
                     obj |-> r.obj]
    /\ UNCHANGED <<loopVars, handled, backendVars>>

\* cls(topic, ordered=..., event_version=...): an event of a class, made
\* with no event_type_name argument
EventConstructDefault(cls, topic, ordered, event_version) ==
    /\ LET r == EventNew(topic, DefaultEventTypeName, ordered, event_version)
       IN  event' = [called |-> TRUE, cls |-> cls, explicit |-> FALSE,
                     topic |-> topic,
                     event_type_name |-> DefaultEventTypeName, ordered |-> ordered,
                     event_version |-> event_version, raised |-> r.raised,
                     obj |-> r.obj]
    /\ UNCHANGED <<loopVars, handled, backendVars>>

----------------------------------------------------------------------------
(* Two threads run the dispatch path: every statement of _dispatch_message *)
(* that reads or writes shared state is a step of its own.  The cache      *)
(* store does not fail here and no entry expires.                          *)

\* the dispatch of the thread's message ends: the for loop goes on
RaceNextMessage(w) ==
    /\ batch' = [batch EXCEPT ![w] = Tail(batch[w])]
    /\ pc' = [pc EXCEPT ![w] = IF Tail(batch[w]) = <<>> THEN "poll" ELSE "deserialize"]

\* consume_event: the retrieval returns the visible messages
RacePoll(w) ==
    /\ w \in consumers
    /\ pc[w] = "poll"
    /\ \E S \in Receivable :
        /\ S # {}
        /\ Receive(S)
        /\ \E s \in Orders(S \ Redriven(S)) :
            /\ batch' = [batch EXCEPT ![w] = s]
            /\ pc' = [pc EXCEPT ![w] = "deserialize"]
    /\ UNCHANGED <<consumers, limit, hasDLQ, cache, exc, ev, handled, event, hooks, backendVars>>

\* message_serializer.deserialize(...): it returns, or its error ends the dispatch
RaceDeserialize(w) ==
    /\ w \in consumers
    /\ pc[w] = "deserialize"
    /\ \/ pc' = [pc EXCEPT ![w] = "check"] /\ UNCHANGED batch
       \/ RaceNextMessage(w)
    /\ UNCHANGED <<consumers, limit, hasDLQ, queueVars, cache, exc, ev, handled, event, hooks, backendVars>>

\* if message_key in self.cache
RaceCheck(w) ==
    /\ w \in consumers
    /\ pc[w] = "check"
    /\ IF InCache(w, Head(batch[w]), cache)
       THEN RaceNextMessage(w)
       ELSE pc' = [pc EXCEPT ![w] = "process"] /\ UNCHANGED batch
    /\ UNCHANGED <<consumers, limit, hasDLQ, queueVars, cache, exc, ev, handled, event, hooks, backendVars>>

\* self.process(...): the handler returns (successful = True), or raises
RaceProcess(w) ==
    /\ w \in consumers
    /\ pc[w] = "process"
    /\ \/ /\ handled' = [handled EXCEPT ![Head(batch[w])] = @ + 1]
          /\ pc' = [pc EXCEPT ![w] = "store"]
          /\ UNCHANGED batch
       \/ /\ RaceNextMessage(w)
          /\ UNCHANGED handled
    /\ UNCHANGED <<consumers, limit, hasDLQ, queueVars, cache, exc, ev, event, hooks, backendVars>>

\* self.cache.store(message_key, message_key)
RaceStore(w) ==
    /\ w \in consumers
    /\ pc[w] = "store"
    /\ cache' = StoreKey(w, Head(batch[w]), cache)
    /\ pc' = [pc EXCEPT ![w] = "acknowledge"]
    /\ UNCHANGED <<consumers, limit, hasDLQ, queueVars, batch, exc, ev, handled, event, hooks, backendVars>>

\* self._backend.acknowledge(message): it removes the message, or raises
RaceAcknowledge(w) ==
    /\ w \in consumers
    /\ pc[w] = "acknowledge"
    /\ \/ Acknowledge(Head(batch[w]))
       \/ UNCHANGED queueVars
    /\ RaceNextMessage(w)
    /\ UNCHANGED <<consumers, limit, hasDLQ, cache, exc, ev, handled, event, hooks, backendVars>>

----------------------------------------------------------------------------
(* Consumer: the dispatch registry, listens_to and accepts                 *)
(* (src/melange/consumer.py)                                               *)

\* the class `object`, for which singledispatch holds the default handler
ObjectType == [id |-> "builtins.object", name |-> "object"]

\* the event classes of the model; two classes of different modules bear
\* the same __name__
EventTypes ==
    {[id |-> "orders.OrderCreated", name |-> "OrderCreated"],
     [id |-> "orders.OrderCancelled", name |-> "OrderCancelled"],
     [id |-> "billing.OrderCreated", name |-> "OrderCreated"]}

\* the manifests given to accepts: None and strings
Manifests ==
    {PyNone, PyStr("OrderCreated"), PyStr("OrderCancelled"), PyStr("object"),
     PyStr("PaymentMade")}

\* x in s, for a list s
InList(x, s) == \E i \in 1..Len(s) : s[i] = x

\* listens_to that keeps the entry of `object`
ListensToWithObject(reg) == [i \in 1..Len(reg) |-> PyStr(reg[i].name)]

\* listens_to(): the __name__ of every key of the registry that is not object
ListensTo(reg) ==
    LET accepted_events == SelectSeq(reg, LAMBDA t : t # ObjectType)
    IN  [i \in 1..Len(accepted_events) |-> PyStr(accepted_events[i].name)]

\* accepts(manifest): not self.listens_to() or manifest in self.listens_to()
Accepts(reg, manifest) ==
    Len(ListensTo(reg)) = 0 \/ InList(manifest, ListensTo(reg))

\* consumer = Consumer._process.register: a handler is registered for a type;
\* registering again for the same type replaces the handler only
Register(t) ==
    /\ registry' = IF InList(t, registry) THEN registry ELSE Append(registry, t)
    /\ UNCHANGED accepted
    /\ UNCHANGED <<loopVars, handled, event>>
    /\ UNCHANGED <<normalizerVars, fifoVars, infraVars, publishVars, legacyVars>>

\* accepts(manifest) is called
AcceptsCall(manifest) ==
    /\ accepted' = [called |-> TRUE, manifest |-> manifest, registry |-> registry,
                    result |-> Accepts(registry, manifest)]
    /\ UNCHANGED registry
    /\ UNCHANGED <<loopVars, handled, event>>
    /\ UNCHANGED <<normalizerVars, fifoVars, infraVars, publishVars, legacyVars>>

----------------------------------------------------------------------------
(* Python values and JSON texts, for the message envelope                  *)
(* (src/melange/backends/sqs/elasticmq.py)                                 *)

PyInt(v) == [type |-> "int", val |-> v]

\* a dict: `items` maps its keys to its values
PyDict(items) == [type |-> "dict", items |-> items]

EmptyDict == PyDict(<<>>)

\* a list: `elems` holds its elements
PyList(elems) == [type |-> "list", elems |-> elems]

\* json.dumps(v): the str that is the JSON text of v; a str made by PyStr is
\* a text that is not JSON
JsonDumps(v) == [type |-> "str", json |-> v]

Ok(v) == [raised |-> "none", value |-> v]

Raise(e) == [raised |-> e, value |-> PyNone]

\* json.loads(s): the value a JSON text stands for, JSONDecodeError otherwise
JsonLoads(s) ==
    IF "json" \in DOMAIN s THEN Ok(s.json) ELSE Raise("JSONDecodeError")

\* bool(v): None, "", {}, [] and 0 are false
Truthy(v) ==
    CASE v.type = "NoneType" -> FALSE
      [] v.type = "str" -> ("val" \in DOMAIN v => v.val # "")
      [] v.type = "dict" -> DOMAIN v.items # {}
      [] v.type = "list" -> Len(v.elems) > 0
      [] v.type = "int" -> v.val # "0"
      [] OTHER -> TRUE

\* the strs of the model that hold the given key as a substring
Substrings == {<<"a Message b", "Message">>}

\* key in v: a key of a dict, an element of a list, a substring of a str;
\* TypeError for a value that is no container
PyIn(key, v) ==
    CASE v.type = "dict" -> Ok(key \in DOMAIN v.items)
      [] v.type = "list" -> Ok(InList(PyStr(key), v.elems))
      [] v.type = "str" -> Ok("val" \in DOMAIN v /\ <<v.val, key>> \in Substrings)
      [] OTHER -> Raise("TypeError")

\* v[key] for a str key: the value of a dict, TypeError for a str or a list
PyIndex(v, key) ==
    CASE v.type = "dict" /\ key \in DOMAIN v.items -> Ok(v.items[key])
      [] v.type = "dict" -> Raise("KeyError")
      [] OTHER -> Raise("TypeError")

\* v.get(key, default): AttributeError where v is no dict
PyGet(v, key, default) ==
    CASE v.type = "dict" /\ key \in DOMAIN v.items -> Ok(v.items[key])
      [] v.type = "dict" -> Ok(default)
      [] OTHER -> Raise("AttributeError")

\* v.get(k1, {}).get(k2)
PyGetGet(v, k1, k2) ==
    LET first == PyGet(v, k1, EmptyDict)
    IN  IF first.raised # "none" THEN first ELSE PyGet(first.value, k2, PyNone)

----------------------------------------------------------------------------
(* _construct_message and the raw messages it is given *)

\* Message(message_id, content, metadata, manifest), or the error raised
NoMessage == [message_id |-> "-", content |-> PyNone, manifest |-> PyNone]

\* the try block of _construct_message: content and the manifest of the
\* nested attributes; only JSONDecodeError is caught
ParseBody(body) ==
    LET loaded == JsonLoads(body)
        message_content == loaded.value
        hasMessage == PyIn("Message", message_content)
        nested == PyIndex(message_content, "Message")
        hasAttributes == PyIn("MessageAttributes", message_content)
        value == PyGetGet(message_content.items["MessageAttributes"],
                          "event_type", "Value")
    IN  IF loaded.raised = "JSONDecodeError"
        THEN [raised |-> "none", content |-> body, manifest |-> PyStr("")]
        ELSE IF hasMessage.raised # "none"
        THEN [raised |-> hasMessage.raised, content |-> PyNone, manifest |-> PyStr("")]
        ELSE IF ~hasMessage.value
        THEN [raised |-> "none", content |-> message_content, manifest |-> PyStr("")]
        ELSE IF nested.raised # "none"
        THEN [raised |-> nested.raised, content |-> PyNone, manifest |-> PyStr("")]
        ELSE IF ~hasAttributes.value
        THEN [raised |-> "none", content |-> nested.value, manifest |-> PyStr("")]
        ELSE IF value.raised # "none"
        THEN [raised |-> value.raised, content |-> PyNone, manifest |-> PyStr("")]
        ELSE [raised |-> "none", content |-> nested.value,
              manifest |-> IF Truthy(value.value) THEN value.value ELSE PyStr("")]

\* a normalizer that does not look at the transport-level attributes
TransportManifestIgnored(message) == Ok(PyStr(""))

\* message.message_attributes.get("event_type", {}).get("StringValue") or ""
TransportManifest(message) ==
    LET value == PyGetGet(message.message_attributes, "event_type", "StringValue")
    IN  IF value.raised # "none" THEN value
        ELSE Ok(IF Truthy(value.value) THEN value.value ELSE PyStr(""))

\* _construct_message(message)
ConstructMessage(message) ==
    LET parsed == ParseBody(message.body)
        transport == TransportManifest(message)
    IN  IF parsed.raised # "none"
        THEN [raised |-> parsed.raised, message |-> NoMessage]
        ELSE IF Truthy(parsed.manifest)
        THEN [raised |-> "none",
              message |-> [message_id |-> message.message_id,
                           content |-> parsed.content, manifest |-> parsed.manifest]]
        ELSE IF transport.raised # "none"
        THEN [raised |-> transport.raised, message |-> NoMessage]
        ELSE [raised |-> "none",
              message |-> [message_id |-> message.message_id,
                           content |-> parsed.content, manifest |-> transport.value]]

\* the contents published: a plain text, and a text that is itself JSON
Contents == {PyStr("my-message-0"), JsonDumps(PyDict([value |-> PyInt("3")]))}

\* the event_type_name given to queue_publish (optional) and to publish
OptionalNames == {PyNone, PyStr(""), PyStr("OrderCreated"), PyStr("BananaEvent")}

RoutingNames == {PyStr("OrderCreated"), PyStr("BananaEvent")}

MessageIds == {"id1", "id2", "id3"}

\* the event_type attribute as SQS carries it, and as the SNS envelope does
TransportAttributes(name) ==
    PyDict([event_type |-> PyDict([DataType |-> PyStr("String"), StringValue |-> name])])

NestedAttributes(name) ==
    PyDict([event_type |-> PyDict([Type |-> PyStr("String"), Value |-> name])])

\* the raw message a queue holds after queue_publish(content, queue,
\* event_type_name): it has message attributes only if a name was given
DirectMessage(id, content, event_type_name) ==
    [message_id |-> id,
     body |-> JsonDumps(PyDict([Message |-> content])),
     message_attributes |-> IF Truthy(event_type_name)
                            THEN TransportAttributes(event_type_name)
                            ELSE PyNone]

\* the raw message a queue holds after publish(content, topic,
\* event_type_name): the topic wraps the content and its attributes in the body
ForwardedMessage(id, content, event_type_name) ==
    [message_id |-> id,
     body |-> JsonDumps(PyDict([Type |-> PyStr("Notification"), Message |-> content,
                                MessageAttributes |-> NestedAttributes(event_type_name)])),
     message_attributes |-> PyNone]

\* bodies other producers put on a queue
OtherBodies ==
    {PyStr("not json"),
     JsonDumps(PyInt("5")),
     JsonDumps(PyNone),
     JsonDumps(PyStr("abc")),
     JsonDumps(PyStr("a Message b")),
     JsonDumps(PyList(<<PyInt("1")>>)),
     JsonDumps(PyDict([value |-> PyInt("3")])),
     JsonDumps(PyDict([Message |-> PyStr("my-message-0"),
                       MessageAttributes |-> NestedAttributes(PyStr(""))])),
     JsonDumps(PyDict([Message |-> PyStr("my-message-0"),
                       MessageAttributes |-> EmptyDict])),
     JsonDumps(PyDict([MessageAttributes |-> NestedAttributes(PyStr("OrderCreated"))]))}

OtherAttributes == {PyNone, EmptyDict, TransportAttributes(PyStr("BananaEvent"))}

\* retrieve_messages hands a received raw message to _construct_message
Normalize(path, content, event_type_name, raw) ==
    /\ LET r == ConstructMessage(raw)
       IN  normalized' = [called |-> TRUE, path |-> path, content |-> content,
                          event_type_name |-> event_type_name, raw |-> raw,
                          raised |-> r.raised, message |-> r.message]
    /\ UNCHANGED retrieved
    /\ UNCHANGED <<loopVars, handled, event>>
    /\ UNCHANGED <<registryVars, fifoVars, infraVars, publishVars, legacyVars>>

\* a message published with queue_publish is retrieved
RetrieveDirect(id, content, event_type_name) ==
    Normalize("queue_publish", content, event_type_name,
              DirectMessage(id, content, event_type_name))

\* a message published to a topic and forwarded to the queue is retrieved
RetrieveForwarded(id, content, event_type_name) ==
    Normalize("publish", content, event_type_name,
              ForwardedMessage(id, content, event_type_name))

\* a message of another producer is retrieved
RetrieveOther(id, body, attributes) ==
    Normalize("other", PyNone, PyNone,
              [message_id |-> id, body |-> body, message_attributes |-> attributes])

----------------------------------------------------------------------------
(* A strict-ordering queue: queue_publish under one message group, then    *)
(* retrieve_messages and acknowledge until a retrieval is empty            *)

\* how many messages the loop publishes at most before it drains the queue
NumFifoMsgs == 3

\* the largest max_number_of_messages the backend is made with
MaxBatch == 2

\* the contents and the optional message_deduplication_id given to queue_publish
FifoContents == {PyStr("my-message-0"), PyStr("my-message-1")}

OptionalDedupIds == {PyNone, PyStr("dedup-1"), PyStr("dedup-2")}

\* the id the queue deduplicates by: the MessageDeduplicationId sent, or, as
\* declare_queue creates the queue with ContentBasedDeduplication 'true', the
\* hash of the body where none is sent
DeduplicationId(content, message_deduplication_id) ==
    IF Truthy(message_deduplication_id)
    THEN <<"id", message_deduplication_id>>
    ELSE <<"sha256", JsonDumps(PyDict([Message |-> content]))>>

\* a retrieval that takes the newest messages first
FifoTakeNewest(messages, k) ==
    [i \in 1..k |-> messages[Len(messages) + 1 - i]]

\* queue.receive_messages on a queue with one message group: the k oldest
\* messages, in the order they were sent
FifoTake(messages, k) == SubSeq(messages, 1, k)

\* ElasticMQBackend(max_number_of_messages = n)
FifoBackendInit(n) ==
    /\ fifoLoop.phase = "new"
    /\ fifoLoop' = [fifoLoop EXCEPT !.phase = "publish", !.max = n]
    /\ UNCHANGED fifoQueue
    /\ UNCHANGED <<loopVars, handled, event>>
    /\ UNCHANGED <<registryVars, normalizerVars, infraVars, publishVars, legacyVars>>

\* queue_publish(content, queue, 'OrderCreated', 'my-app', id): the queue
\* takes the message unless it has seen its deduplication id
FifoPublish(content, message_deduplication_id) ==
    /\ fifoLoop.phase = "publish"
    /\ Len(fifoLoop.sent) < NumFifoMsgs
    /\ LET id == DeduplicationId(content, message_deduplication_id)
           raw == DirectMessage("id1", content, PyStr("OrderCreated"))
       IN  /\ fifoQueue' = IF id \in fifoQueue.seen THEN fifoQueue
                           ELSE [messages |-> Append(fifoQueue.messages, raw),
                                 seen |-> fifoQueue.seen \cup {id}]
           /\ fifoLoop' = [fifoLoop EXCEPT !.sent = Append(@, content),
                                           !.ids = Append(@, id)]
    /\ UNCHANGED <<loopVars, handled, event>>
    /\ UNCHANGED <<registryVars, normalizerVars, infraVars, publishVars, legacyVars>>

\* the publishing ends and the first retrieve_messages is due
FifoDrain ==
    /\ fifoLoop.phase = "publish"
    /\ fifoLoop' = [fifoLoop EXCEPT !.phase = "retrieve"]
    /\ UNCHANGED fifoQueue
    /\ UNCHANGED <<loopVars, handled, event>>
    /\ UNCHANGED <<registryVars, normalizerVars, infraVars, publishVars, legacyVars>>

\* retrieve_messages(queue) returns k messages, at least one and at most
\* max_number_of_messages, each made by _construct_message
FifoRetrieve(k) ==
    /\ fifoLoop.phase = "retrieve"
    /\ k >= 1
    /\ k <= fifoLoop.max
    /\ k <= Len(fifoQueue.messages)
    /\ LET raws == FifoTake(fifoQueue.messages, k)
       IN  fifoLoop' = [fifoLoop EXCEPT
                           !.phase = "ack",
                           !.batch = [i \in 1..k |->
                                         [metadata |-> raws[i],
                                          message |-> ConstructMessage(raws[i]).message]]]
    /\ UNCHANGED fifoQueue
    /\ UNCHANGED <<loopVars, handled, event>>
    /\ UNCHANGED <<registryVars, normalizerVars, infraVars, publishVars, legacyVars>>

\* retrieve_messages(queue) returns the empty list: the loop ends
FifoRetrieveEmpty ==
    /\ fifoLoop.phase = "retrieve"
    /\ fifoQueue.messages = <<>>
    /\ fifoLoop' = [fifoLoop EXCEPT !.phase = "done"]
    /\ UNCHANGED fifoQueue
    /\ UNCHANGED <<loopVars, handled, event>>
    /\ UNCHANGED <<registryVars, normalizerVars, infraVars, publishVars, legacyVars>>

\* s without its first element equal to x
RemoveFirst(s, x) ==
    LET at == CHOOSE i \in 1..Len(s) : s[i] = x /\ \A j \in 1..(i - 1) : s[j] # x
    IN  [i \in 1..(Len(s) - 1) |-> IF i < at THEN s[i] ELSE s[i + 1]]

\* the loop takes the content of the next retrieved message and calls
\* acknowledge(m), which deletes it from the queue
FifoAcknowledge ==
    /\ fifoLoop.phase = "ack"
    /\ LET m == Head(fifoLoop.batch)
       IN  /\ fifoLoop' = [fifoLoop EXCEPT
                              !.received = Append(@, m.message.content),
                              !.batch = Tail(@),
                              !.phase = IF Tail(fifoLoop.batch) = <<>>
                                        THEN "retrieve" ELSE "ack"]
           /\ fifoQueue' = [fifoQueue EXCEPT !.messages = RemoveFirst(@, m.metadata)]
    /\ UNCHANGED <<loopVars, handled, event>>
    /\ UNCHANGED <<registryVars, normalizerVars, infraVars, publishVars, legacyVars>>

----------------------------------------------------------------------------
(* declare_queue: queues, topic subscriptions with their filter policy,    *)
(* and the redrive policy.  The access policy declare_queue also sets      *)
(* (a fresh uuid in every statement) takes no part in forwarding and is    *)
(* left out.                                                               *)

\* the names given as queue_name and as dead_letter_queue_name
QueueNames == {<<"dev-queue">>, <<"dev-queue", ".fifo">>}

DeadLetterQueueNames == {<<"dev-dlq", ".fifo">>}

\* the filter_events given: none, an empty list, and one-name lists
FilterEvents ==
    {PyNone, PyList(<<>>), PyList(<<PyStr("BananaEvent")>>),
     PyList(<<PyStr("OrderCreated")>>)}

\* queue_name.endswith(".fifo")
EndsWith(name, suffix) == Len(name) > 0 /\ name[Len(name)] = suffix

\* _create_queue(queue_name, content_based_deduplication = cbd): the
\* attributes it creates the queue with
CreateAttributes(queue_name, cbd) ==
    IF EndsWith(queue_name, ".fifo")
    THEN [FifoQueue |-> "true",
          ContentBasedDeduplication |-> IF Truthy(cbd) THEN "true" ELSE "false"]
    ELSE <<>>

\* a declare_queue that does not look for the queue first
CreateAlways(queues, name, cbd) ==
    [queues EXCEPT ![name] = [exists |-> TRUE, created |-> @.created + 1,
                              attributes |-> CreateAttributes(name, cbd)]]

\* try: get_queue(name) / except: _create_queue(name, content_based_deduplication = cbd)
GetOrCreate(queues, name, cbd) ==
    IF queues[name].exists THEN queues
    ELSE [queues EXCEPT ![name] = [exists |-> TRUE, created |-> @.created + 1,
                                   attributes |-> CreateAttributes(name, cbd)]]

\* the handle of a queue: the queue of that name as it was created
Handle(queues, name) == [name |-> name, incarnation |-> queues[name].created]

\* a topic that makes a new subscription for every subscribe call
SubscribeAlways(subs, topic, endpoint) ==
    Append(subs, [topic |-> topic, endpoint |-> endpoint, policy |-> EmptyDict])

\* topic.subscribe(Protocol = "sqs", Endpoint = arn): the subscription of the
\* endpoint to the topic, made if there is none yet
Subscribe(subs, topic, endpoint) ==
    IF \E i \in 1..Len(subs) : subs[i].topic = topic /\ subs[i].endpoint = endpoint
    THEN subs
    ELSE Append(subs, [topic |-> topic, endpoint |-> endpoint, policy |-> EmptyDict])

\* the FilterPolicy _subscribe_to_topics sets on the subscription
FilterPolicy(filter_events) ==
    IF Truthy(filter_events) THEN PyDict([event_type |-> filter_events])
    ELSE EmptyDict

\* _subscribe_to_topics(queue, topics_to_bind, filter_events = ...)
RECURSIVE SubscribeToTopics(_, _, _, _)
SubscribeToTopics(subs, endpoint, topics_to_bind, filter_events) ==
    IF topics_to_bind = <<>> THEN subs
    ELSE LET topic == Head(topics_to_bind)
             made == Subscribe(subs, topic, endpoint)
             set == [i \in 1..Len(made) |->
                        IF made[i].topic = topic /\ made[i].endpoint = endpoint
                        THEN [made[i] EXCEPT !.policy = FilterPolicy(filter_events)]
                        ELSE made[i]]
         IN  SubscribeToTopics(set, endpoint, Tail(topics_to_bind), filter_events)

\* queue.set_attributes(Attributes = {"RedrivePolicy": ...})
SetRedrivePolicy(queues, name, dead_letter_queue_name) ==
    [queues EXCEPT ![name].attributes =
        [a \in DOMAIN @ \cup {"RedrivePolicy"} |->
            IF a = "RedrivePolicy"
            THEN [deadLetterTargetArn |-> dead_letter_queue_name,
                  maxReceiveCount |-> MaxReceiveCount]
            ELSE @[a]]]

\* declare_queue(queue_name, *topics_to_bind, dead_letter_queue_name = ...,
\* filter_events = ...); <<>> stands for no dead_letter_queue_name
DeclareQueue(queue_name, topics_to_bind, filter_events, dead_letter_queue_name) ==
    LET args == [queue_name |-> queue_name, topics_to_bind |-> topics_to_bind,
                 filter_events |-> filter_events,
                 dead_letter_queue_name |-> dead_letter_queue_name]
        withQueue == GetOrCreate(sqs, queue_name, PyStr("true"))
        withDlq == IF dead_letter_queue_name = <<>> THEN withQueue
                   ELSE SetRedrivePolicy(
                            GetOrCreate(withQueue, dead_letter_queue_name, PyStr("true")),
                            queue_name, dead_letter_queue_name)
    IN  /\ sqs' = withDlq
        /\ sns' = SubscribeToTopics(sns, queue_name, topics_to_bind, filter_events)
        /\ declared' =
               [called |-> TRUE,
                again |-> declared.called /\ declared.args = args,
                args |-> args,
                ret |-> <<Handle(withDlq, queue_name),
                          IF dead_letter_queue_name = <<>> THEN Handle(withDlq, queue_name)
                          ELSE Handle(withDlq, dead_letter_queue_name)>>,
                bound |-> IF topics_to_bind = <<>> THEN declared.bound
                          ELSE [declared.bound EXCEPT ![queue_name] = filter_events]]
        /\ forwarded' = [called |-> FALSE, event_type_name |-> PyNone,
                         copies |-> [q \in QueueNames |-> 0]]
        /\ UNCHANGED <<loopVars, handled, event>>
        /\ UNCHANGED <<registryVars, normalizerVars, fifoVars, publishVars, legacyVars>>

\* whether a subscription with the filter policy is sent a message whose
\* event_type attribute is the name
PolicyAccepts(policy, name) ==
    \/ "event_type" \notin DOMAIN policy.items
    \/ InList(name, policy.items["event_type"].elems)

\* publish(content, topic, event_type_name): the topic forwards the event to
\* every subscription whose filter policy accepts it
TopicForward(topic, event_type_name) ==
    /\ forwarded' =
           [called |-> TRUE, event_type_name |-> event_type_name,
            copies |-> [q \in QueueNames |->
                           Cardinality({i \in 1..Len(sns) :
                               /\ sns[i].topic = topic
                               /\ sns[i].endpoint = q
                               /\ PolicyAccepts(sns[i].policy, event_type_name)})]]
    /\ UNCHANGED <<sqs, sns, declared>>
    /\ UNCHANGED <<loopVars, handled, event>>
    /\ UNCHANGED <<registryVars, normalizerVars, fifoVars, publishVars, legacyVars>>

----------------------------------------------------------------------------
(* publish: ElasticMQBackend.publish and MessagePublisher.publish *)

\* the extra_attributes given to publish
ExtraAttributes ==
    {PyNone, EmptyDict,
     PyDict([subject |-> PyStr("a subject")]),
     PyDict([message_structure |-> PyStr("json")]),
     PyDict([message_attributes |->
                PyDict([trace |-> PyDict([DataType |-> PyStr("String"),
                                          StringValue |-> PyStr("t-1")])])]),
     PyDict([message_attributes |-> TransportAttributes(PyStr("OtherEvent"))])}

\* what topic.publish does: it returns a response with a MessageId, returns
\* one without, or raises an error of its own
Outcomes == {"MessageId", "no MessageId", "raises"}

\* a.update(b), for the items of two dicts
DictUpdate(a, b) ==
    [k \in DOMAIN a \cup DOMAIN b |-> IF k \in DOMAIN b THEN b[k] ELSE a[k]]

\* the keyword arguments ElasticMQBackend.publish gives to topic.publish
PublishArgs(content, event_type_name, extra_attributes) ==
    LET extra == IF Truthy(extra_attributes) THEN extra_attributes.items ELSE <<>>
        attributes == IF "message_attributes" \in DOMAIN extra
                      THEN DictUpdate(TransportAttributes(event_type_name).items,
                                      extra["message_attributes"].items)
                      ELSE TransportAttributes(event_type_name).items
        renamed == [subject |-> "Subject", message_structure |-> "MessageStructure"]
    IN  [k \in {"Message", "MessageAttributes"}
               \cup {renamed[x] : x \in DOMAIN extra \cap DOMAIN renamed} |->
            CASE k = "Message" -> content
              [] k = "MessageAttributes" -> PyDict(attributes)
              [] k = "Subject" -> extra["subject"]
              [] k = "MessageStructure" -> extra["message_structure"]]

\* a publish that takes any response for a delivery
DeliveryErrorNever(outcome) == "none"

\* if "MessageId" not in response: raise ConnectionError(...)
DeliveryError(outcome) ==
    IF outcome = "no MessageId" THEN "ConnectionError" ELSE "none"

\* ElasticMQBackend.publish(content, topic, event_type_name, extra_attributes)
BackendPublish(content, event_type_name, extra_attributes, outcome) ==
    /\ published' =
           [called |-> TRUE, publisher |-> "ElasticMQBackend",
            event_type_name |-> event_type_name,
            extra_attributes |-> extra_attributes,
            is_event |-> TRUE, outcome |-> outcome, calls |-> 1,
            args |-> PublishArgs(content, event_type_name, extra_attributes),
            raised |-> IF outcome = "raises" THEN "ClientError"
                       ELSE DeliveryError(outcome),
            returned |-> PyNone]
    /\ UNCHANGED <<loopVars, handled, event>>
    /\ UNCHANGED <<registryVars, normalizerVars, fifoVars, infraVars, legacyVars>>

\* MessagePublisher.publish(event): what is not an Event is logged and not
\* sent; an Event (of the given event_type_name) is serialized and sent with
\* no message attributes
LegacyPublish(content, event_type_name, is_event, outcome) ==
    /\ published' =
           IF ~is_event
           THEN [called |-> TRUE, publisher |-> "MessagePublisher",
                 event_type_name |-> PyNone, extra_attributes |-> PyNone,
                 is_event |-> FALSE, outcome |-> "-", calls |-> 0, args |-> <<>>,
                 raised |-> "none", returned |-> [type |-> "bool", val |-> "False"]]
           ELSE [called |-> TRUE, publisher |-> "MessagePublisher",
                 event_type_name |-> event_type_name, extra_attributes |-> PyNone,
                 is_event |-> TRUE, outcome |-> outcome, calls |-> 1,
                 args |-> [Message |-> content],
                 raised |-> IF outcome = "raises" THEN "ClientError"
                            ELSE DeliveryError(outcome),
                 returned |-> IF outcome = "MessageId"
                              THEN [type |-> "bool", val |-> "True"] ELSE PyNone]
    /\ UNCHANGED <<loopVars, handled, event>>
    /\ UNCHANGED <<registryVars, normalizerVars, fifoVars, infraVars, legacyVars>>

----------------------------------------------------------------------------
(* MessageConsumer (melange.aws): consume_event *)

\* the messages that arrive in the event queue, and their bodies: an event,
\* an event in the envelope of the topic, a text that is not JSON, and a
\* JSON object with no event_type_name
LegacyBodies ==
    [direct |-> JsonDumps(PyDict([event_type_name |-> PyStr("OrderCreated")])),
     envelope |-> JsonDumps(PyDict([Message |->
                     JsonDumps(PyDict([event_type_name |-> PyStr("OrderCreated")]))])),
     text |-> PyStr("not json"),
     nameless |-> JsonDumps(PyDict([amount |-> PyInt("3")]))]

\* _get_next_event from json.loads(body) on: the event, or the error that the
\* except clauses turn into None; `deserializes` is whether
\* event_serializer.deserialize returns
GetNextEvent(body, deserializes) ==
    LET message_content == JsonLoads(body)
        wrapped == PyIn("Message", message_content.value)
        inner == PyIndex(message_content.value, "Message")
        content == IF wrapped.value
                   THEN IF inner.raised # "none" THEN inner ELSE JsonLoads(inner.value)
                   ELSE message_content
        named == PyIn("event_type_name", content.value)
    IN  CASE message_content.raised # "none" -> message_content
          [] wrapped.raised # "none" -> Raise(wrapped.raised)
          [] content.raised # "none" -> content
          [] named.raised # "none" -> Raise(named.raised)
          [] ~named.value -> Raise("Exception")
          [] ~deserializes -> Raise("DeserializeError")
          [] OTHER -> content

\* the topic forwards a message to the queue declared in __init__
LegacyArrive(m) ==
    /\ legacyQueue[m] = "absent"
    /\ legacyQueue' = [legacyQueue EXCEPT ![m] = "visible"]
    /\ UNCHANGED legacy
    /\ UNCHANGED <<loopVars, handled, event>>
    /\ UNCHANGED <<registryVars, normalizerVars, fifoVars, infraVars, publishVars>>

\* receive_messages(MaxNumberOfMessages=1) gave message m:
\* body = message.body; message.delete()
LegacyReceive(m) ==
    /\ legacy.pc = "idle"
    /\ legacyQueue[m] = "visible"
    /\ legacyQueue' = [legacyQueue EXCEPT ![m] = "deleted"]
    /\ legacy' = [legacy EXCEPT !.pc = "loads", !.message = m, !.eventobj = PyNone]
    /\ UNCHANGED <<loopVars, handled, event>>
    /\ UNCHANGED <<registryVars, normalizerVars, fifoVars, infraVars, publishVars>>

\* receive_messages gave nothing: _get_next_event returns None
LegacyReceiveNone ==
    /\ legacy.pc = "idle"
    /\ \A m \in DOMAIN legacyQueue : legacyQueue[m] # "visible"
    /\ legacy' = [legacy EXCEPT !.message = "-", !.eventobj = PyNone]
    /\ UNCHANGED legacyQueue
    /\ UNCHANGED <<loopVars, handled, event>>
    /\ UNCHANGED <<registryVars, normalizerVars, fifoVars, infraVars, publishVars>>

\* json.loads(body) up to the return of _get_next_event; consume_event goes
\* on to _process_event only for an event
LegacyLoads(deserializes) ==
    /\ legacy.pc = "loads"
    /\ LET got == GetNextEvent(LegacyBodies[legacy.message], deserializes)
       IN  legacy' =
               IF got.raised = "none"
               THEN [legacy EXCEPT !.pc = "process", !.eventobj = got.value]
               ELSE [legacy EXCEPT !.pc = "idle",
                                   !.failed = @ \cup {legacy.message}]
    /\ UNCHANGED legacyQueue
    /\ UNCHANGED <<loopVars, handled, event>>
    /\ UNCHANGED <<registryVars, normalizerVars, fifoVars, infraVars, publishVars>>

\* _process_event: every subscriber of the event type processes the event;
\* what one raises is logged
LegacyProcess(raises) ==
    /\ legacy.pc = "process"
    /\ legacy' = [legacy EXCEPT !.pc = "idle",
                                !.processed = @ \cup {legacy.message},
                                !.logged = @ \cup IF raises THEN {legacy.message} ELSE {}]
    /\ UNCHANGED legacyQueue
    /\ UNCHANGED <<loopVars, handled, event>>
    /\ UNCHANGED <<registryVars, normalizerVars, fifoVars, infraVars, publishVars>>

----------------------------------------------------------------------------
(* The manifests of the messages SimpleConsumer dispatches *)

\* message.get_message_manifest(): the event type name the message carries
ManifestOf(m) ==
    IF m % 2 = 1 THEN PyStr("OrderCreated") ELSE PyStr("PaymentMade")

----------------------------------------------------------------------------
(* retrieve_messages: a batch of raw messages *)

\* the batches receive_messages returns: a message of queue_publish alone,
\* or followed by a message of another producer
RawBatches ==
    LET good == DirectMessage("id1", PyStr("my-message-0"), PyStr("OrderCreated"))
    IN  {<<good>>} \cup
        {<<good, [message_id |-> "id2", body |-> body, message_attributes |-> attributes]>> :
            body \in OtherBodies, attributes \in OtherAttributes}

\* [self._construct_message(message) for message in messages]: the list of
\* Messages, or the first error a _construct_message raises
ConstructMessages(raws) ==
    LET results == [i \in DOMAIN raws |-> ConstructMessage(raws[i])]
        failing == {i \in DOMAIN raws : results[i].raised # "none"}
    IN  IF failing = {}
        THEN [raised |-> "none", messages |-> [i \in DOMAIN raws |-> results[i].message]]
        ELSE [raised |-> results[CHOOSE i \in failing : \A j \in failing : i <= j].raised,
              messages |-> <<>>]

\* retrieve_messages(queue), receive_messages having returned the batch
RetrieveMessages(raws) ==
    /\ LET r == ConstructMessages(raws)
       IN  retrieved' = [called |-> TRUE, raws |-> raws, raised |-> r.raised,
                         messages |-> r.messages]
    /\ UNCHANGED normalized
    /\ UNCHANGED <<loopVars, handled, event>>
    /\ UNCHANGED <<registryVars, fifoVars, infraVars, publishVars, legacyVars>>

\* the other components at rest
InitBackend ==
    /\ normalized =
           [called |-> FALSE, path |-> "-", content |-> PyNone,
            event_type_name |-> PyNone,
            raw |-> [message_id |-> "-", body |-> PyStr(""),
                     message_attributes |-> PyNone],
            raised |-> "none", message |-> NoMessage]
    /\ retrieved = [called |-> FALSE, raws |-> <<>>, raised |-> "none", messages |-> <<>>]
    /\ fifoQueue = [messages |-> <<>>, seen |-> {}]
    /\ fifoLoop = [phase |-> "new", max |-> 0, sent |-> <<>>, ids |-> <<>>,
                   batch |-> <<>>, received |-> <<>>]
    /\ sqs = [name \in QueueNames \cup DeadLetterQueueNames |->
                  [exists |-> FALSE, created |-> 0, attributes |-> <<>>]]
    /\ sns = <<>>
    /\ declared =
           [called |-> FALSE, again |-> FALSE,
            args |-> [queue_name |-> <<>>, topics_to_bind |-> <<>>,
                      filter_events |-> PyNone, dead_letter_queue_name |-> <<>>],
            ret |-> <<>>, bound |-> [q \in QueueNames |-> [type |-> "unbound"]]]
    /\ forwarded = [called |-> FALSE, event_type_name |-> PyNone,
                    copies |-> [q \in QueueNames |-> 0]]
    /\ published =
           [called |-> FALSE, publisher |-> "-", event_type_name |-> PyNone,
            extra_attributes |-> PyNone, is_event |-> FALSE, outcome |-> "-",
            calls |-> 0, args |-> <<>>, raised |-> "none", returned |-> PyNone]
    /\ legacyQueue = [m \in {"direct", "envelope", "text", "nameless"} |-> "absent"]
    /\ legacy = [pc |-> "idle", message |-> "-", eventobj |-> PyNone,
                 processed |-> {}, failed |-> {}, logged |-> {}]
    /\ registry = <<ObjectType>>
    /\ accepted = [called |-> FALSE, manifest |-> PyNone, registry |-> <<>>,
                   result |-> FALSE]

----------------------------------------------------------------------------
(* Specifications *)

\* the queue is empty, no consumer has polled, nothing is cached
InitLoop ==
    /\ visible = {}
    /\ inflight = {}
    /\ dlq = {}
    /\ acked = {}
    /\ rc = [m \in Msgs |-> 0]
    /\ cache = {}
    /\ pc = [c \in ConsumerIds |-> "poll"]
    /\ batch = [c \in ConsumerIds |-> <<>>]
    /\ exc = [c \in ConsumerIds |-> "none"]
    /\ ev = NoEv
    /\ handled = [m \in Msgs |-> 0]
    /\ event = NoEvent
    /\ InitBackend

\* consume_loop is given hooks that return
InitQueue ==
    /\ InitLoop
    /\ hooks = HooksGiven("returns", "returns")

\* one consumer polls a queue declared without a dead-letter queue
Init ==
    /\ consumers = {"A"}
    /\ limit = NumMsgs
    /\ hasDLQ = FALSE
    /\ InitQueue

\* one consumer polls a queue declared with or without a dead-letter queue
InitRedrive ==
    /\ consumers = {"A"}
    /\ limit = NumRedriveMsgs
    /\ hasDLQ \in BOOLEAN
    /\ InitQueue

\* two consumers of different classes poll one queue and share one cache
InitShared ==
    /\ consumers = {"A", "B"}
    /\ limit = NumSharedMsgs
    /\ hasDLQ = FALSE
    /\ InitQueue

Next ==
    \/ \E m \in Msgs : Publish(m)
    \/ \E m \in Msgs : VisibilityTimeout(m)
    \/ \E k \in AllKeys : Expire(k)
    \/ \E c \in ConsumerIds : PollRaises(c)
    \/ \E c \in ConsumerIds : PollReturns(c)
    \/ \E c \in ConsumerIds : Dispatch(c)
    \/ \E c \in ConsumerIds : Except(c)
    \/ \E c \in ConsumerIds : Finally(c)

Spec == Init /\ [][Next]_vars

\* one step of consumer c's consume_loop
Loop(c) == PollRaises(c) \/ PollReturns(c) \/ Dispatch(c) \/ Except(c) \/ Finally(c)

\* The thread that runs `while True` keeps running; get_queue and
\* retrieve_messages do not fail forever (their errors are transient); every
\* visibility timeout ends.
Fairness ==
    /\ \A c \in ConsumerIds : WF_vars(Loop(c)) /\ SF_vars(PollReturns(c))
    /\ \A m \in Msgs : WF_vars(VisibilityTimeout(m))

FairSpec == Init /\ [][Next]_vars /\ Fairness

RedriveSpec == InitRedrive /\ [][Next]_vars /\ Fairness

SharedSpec == InitShared /\ [][Next]_vars

\* two threads of one consumer class poll one queue and share one cache
InitRace ==
    /\ consumers = {"A", "A2"}
    /\ limit = NumSharedMsgs
    /\ hasDLQ = FALSE
    /\ InitQueue

RaceNext ==
    \/ \E m \in Msgs : Publish(m)
    \/ \E m \in Msgs : VisibilityTimeout(m)
    \/ \E w \in ConsumerIds : RacePoll(w)
    \/ \E w \in ConsumerIds : RaceDeserialize(w)
    \/ \E w \in ConsumerIds : RaceCheck(w)
    \/ \E w \in ConsumerIds : RaceProcess(w)
    \/ \E w \in ConsumerIds : RaceStore(w)
    \/ \E w \in ConsumerIds : RaceAcknowledge(w)

RaceSpec == InitRace /\ [][RaceNext]_vars

\* Events are constructed; no consumer runs
InitEvent ==
    /\ consumers = {}
    /\ limit = 0
    /\ hasDLQ = FALSE
    /\ InitQueue

EventNext ==
    \/ \E topic \in Topics, event_type_name \in EventTypeNames,
          ordered \in OrderedValues, event_version \in EventVersions :
           EventConstruct(topic, event_type_name, ordered, event_version)
    \/ \E cls \in DOMAIN EventClasses, topic \in Topics,
          ordered \in OrderedValues, event_version \in EventVersions :
           EventConstructDefault(cls, topic, ordered, event_version)

EventSpec == InitEvent /\ [][EventNext]_vars

----------------------------------------------------------------------------
(* Steps, as the properties below see them *)

\* the step is consumer c's dispatch of message m
DispatchStep(c, m) ==
    /\ c \in consumers
    /\ pc[c] = "dispatch"
    /\ batch[c] # <<>>
    /\ Head(batch[c]) = m
    /\ batch'[c] # batch[c]

\* the messages of a batch
Range(s) == {s[i] : i \in DOMAIN s}

\* the handler raised in consumer c's latest dispatch, which was of message m
HandlerRaisedLast(c, m) ==
    /\ ev.kind = "dispatch"
    /\ ev.c = c
    /\ ev.m = m
    /\ ev.handler = "raise"

\* a call of the dispatch raised
Failed(e) ==
    /\ e.kind = "dispatch"
    /\ "raise" \in {e.deser, e.handler, e.store, e.ack}

\* the step is a retrieval of consumer c that returned
PollStep(c) ==
    /\ c \in consumers
    /\ pc[c] = "poll"
    /\ pc'[c] \in {"dispatch", "finally"}

----------------------------------------------------------------------------
(* C1 *)

----------------------------------------------------------------------------
(* C2 *)

\* C2, as stated: a dispatch whose handler raises neither acknowledges the
\* message nor stores its key; the next retrieval after the visibility
\* timeout presents the message again, and a dispatch of a message whose key
\* is absent (and that deserializes) invokes the handler.
C2_Original ==
    [][\A c \in ConsumerIds, m \in Msgs :
        /\ (DispatchStep(c, m) /\ ev'.handler = "raise" =>
                /\ ev'.ack = "none"
                /\ acked' = acked
                /\ cache' = cache
                /\ MessageKey(c, m) \notin cache')
        /\ (PollStep(c) /\ HandlerRaisedLast(c, m) /\ m \in visible =>
                m \in Range(batch'[c]))
        /\ (DispatchStep(c, m) /\ MessageKey(c, m) \notin cache /\ ev'.deser = "ok" =>
                ev'.handler # "none")]_vars

\* C2, amended: as stated, except that the next retrieval presents the message
\* again unless the queue has a redrive policy and the message has already
\* been received MaxReceiveCount (4) times: that retrieval moves it to the
\* dead-letter queue instead.
C2_FailedHandlerLeavesMessage ==
    [][\A c \in ConsumerIds, m \in Msgs :
        /\ (DispatchStep(c, m) /\ ev'.handler = "raise" =>
                /\ ev'.ack = "none"
                /\ acked' = acked
                /\ cache' = cache
                /\ MessageKey(c, m) \notin cache')
        /\ (PollStep(c) /\ HandlerRaisedLast(c, m) /\ m \in visible =>
                IF hasDLQ /\ rc[m] >= 4
                THEN m \in dlq' /\ m \notin Range(batch'[c])
                ELSE m \in Range(batch'[c]) /\ m \in inflight')
        /\ (DispatchStep(c, m) /\ MessageKey(c, m) \notin cache /\ ev'.deser = "ok" =>
                ev'.handler # "none")]_vars

\* C2 witness: the handler raised on a redelivery of a message, which is still
\* in the queue, unacknowledged, its key absent from the cache
C2_Witness ==
    /\ ev.kind = "dispatch"
    /\ ev.handler = "raise"
    /\ rc[ev.m] >= 2
    /\ ev.m \in visible \cup inflight
    /\ ev.m \notin acked
    /\ MessageKey(ev.c, ev.m) \notin cache

----------------------------------------------------------------------------
(* C3 *)

\* C3: acknowledge is called in a dispatch only when, in that same dispatch,
\* the message was deserialized, was not skipped as a duplicate and its handler
\* returned without error; and a message becomes acknowledged only in such a
\* dispatch of that message.
C3_AckOnlyAfterSuccess ==
    [][/\ \A c \in ConsumerIds, m \in Msgs :
            DispatchStep(c, m) /\ ev'.ack # "none" =>
                ev'.deser = "ok" /\ ~ev'.hit /\ ev'.handler = "ok"
       /\ \A m \in acked' \ acked :
            \E c \in ConsumerIds :
                DispatchStep(c, m) /\ ev'.handler = "ok" /\ ev'.ack = "ok"]_vars

\* C3 witness: a message was acknowledged by a dispatch whose handler returned
C3_Witness ==
    /\ ev.kind = "dispatch"
    /\ ev.handler = "ok"
    /\ ev.ack = "ok"
    /\ ev.m \in acked
----------------------------------------------------------------------------
(* C4 *)

\* C4: a dispatch in which deserialization, the handler, the cache store or
\* acknowledge raised leaves the rest of the batch to be dispatched and the
\* loop out of its except clause; every message of a retrieved batch is
\* dispatched, and after the batch the loop polls again.
C4_BatchIndependence ==
    /\ [][\A c \in ConsumerIds, m \in Msgs :
            DispatchStep(c, m) /\ Failed(ev') =>
                /\ batch'[c] = Tail(batch[c])
                /\ pc'[c] = IF Tail(batch[c]) = <<>> THEN "finally" ELSE "dispatch"
                /\ exc'[c] = "none"]_vars
    /\ \A c \in ConsumerIds, m \in Msgs :
            (pc[c] = "dispatch" /\ m \in Range(batch[c]))
                ~> (ev.kind = "dispatch" /\ ev.c = c /\ ev.m = m)
    /\ \A c \in ConsumerIds :
            (pc[c] = "dispatch") ~> (pc[c] = "poll")

\* C4 witness: a dispatch failed and the rest of the batch awaits dispatch
C4_Witness ==
    /\ Failed(ev)
    /\ pc[ev.c] = "dispatch"
    /\ batch[ev.c] # <<>>
    /\ exc[ev.c] = "none"

----------------------------------------------------------------------------
(* C5 *)

\* C5: consume_loop never leaves its loop, and after an error of get_queue,
\* retrieve_messages, deserialization, a handler or acknowledge it reaches
\* another poll.
C5_LoopSurvivesErrors ==
    /\ [](\A c \in ConsumerIds : pc[c] # "exited")
    /\ \A c \in ConsumerIds :
            (pc[c] = "except" \/ (Failed(ev) /\ ev.c = c)) ~> (pc[c] = "poll")

\* C5 witness: the loop is about to poll again after having caught an error
\* of get_queue or retrieve_messages
C5_Witness ==
    \E c \in consumers :
        /\ pc[c] = "poll"
        /\ exc[c] \in {"get_queue", "retrieve_messages"}

----------------------------------------------------------------------------
(* C7 *)

\* C7: a dispatch whose deserialization raises calls neither the handler, nor
\* the cache store, nor acknowledge; it changes neither the cache nor the
\* queue, so the message stays in the queue; the error ends the dispatch of
\* that message only.
C7_DeserializationFailure ==
    [][\A c \in ConsumerIds, m \in Msgs :
        DispatchStep(c, m) /\ ev'.deser = "raise" =>
            /\ ev'.handler = "none" /\ ev'.store = "none" /\ ev'.ack = "none"
            /\ cache' = cache
            /\ queueVars' = queueVars
            /\ m \notin acked'
            /\ batch'[c] = Tail(batch[c])
            /\ pc'[c] = IF Tail(batch[c]) = <<>> THEN "finally" ELSE "dispatch"
            /\ exc'[c] = "none"]_vars

\* C7 witness: deserialization raised for a message that is still in the queue
C7_Witness ==
    /\ ev.kind = "dispatch"
    /\ ev.deser = "raise"
    /\ ev.m \in visible \cup inflight
    /\ MessageKey(ev.c, ev.m) \notin cache

----------------------------------------------------------------------------
(* C8 *)

\* C8: under a redrive policy a message is delivered at most 4 times; a
\* message of the queue stays in the queue or the dead-letter queue unless a
\* dispatch whose handler returned acknowledges it; a retrieval presents every
\* visible message received fewer than 4 times; and every message of the queue
\* ends in the dead-letter queue or acknowledged.
C8_DeadLetter ==
    /\ [](hasDLQ => \A m \in Msgs : rc[m] <= 4)
    /\ [][\A m \in visible \cup inflight \cup dlq :
            \/ m \in visible' \cup inflight' \cup dlq'
            \/ /\ m \in acked'
               /\ \E c \in ConsumerIds :
                    DispatchStep(c, m) /\ ev'.handler = "ok"]_vars
    /\ [][\A c \in ConsumerIds, m \in visible :
            hasDLQ /\ PollStep(c) /\ rc[m] < 4 =>
                m \in Range(batch'[c]) /\ rc'[m] = rc[m] + 1]_vars
    /\ \A m \in Msgs :
            (hasDLQ /\ m \in visible \cup inflight) ~> (m \in dlq \cup acked)

\* C8 witness: a message delivered 4 times and never acknowledged is in the
\* dead-letter queue
C8_Witness ==
    \E m \in Msgs :
        /\ hasDLQ
        /\ rc[m] = 4
        /\ m \in dlq
        /\ m \notin acked \cup visible \cup inflight
----------------------------------------------------------------------------
(* C9 *)

\* C9: where two consumers of different classes share one cache, the key of
\* consumer c for message m enters the cache only in c's own dispatch of m
\* with the handler returned, and c's dispatch of a message that deserializes
\* invokes c's handler exactly when c's own key is absent, whatever the other
\* consumer has stored.
C9_IdentityScopedDedup ==
    [][\A c \in consumers, m \in Msgs :
        /\ (MessageKey(c, m) \in cache' /\ MessageKey(c, m) \notin cache =>
                DispatchStep(c, m) /\ ev'.handler = "ok")
        /\ (DispatchStep(c, m) /\ ev'.deser = "ok" =>
                (ev'.handler # "none" <=> MessageKey(c, m) \notin cache))]_vars

\* C9 witness: B's handler was invoked for a message whose key for A is in
\* the cache (A has processed it), B's key being stored by B's own success
C9_Witness ==
    \E m \in Msgs :
        /\ ev.kind = "dispatch"
        /\ ev.c = "B"
        /\ ev.m = m
        /\ ev.handler = "ok"
        /\ MessageKey("A", m) \in cache
        /\ MessageKey("B", m) \in cache
----------------------------------------------------------------------------
(* C6 *)

\* C6, as stated: whatever the interleaving of two threads of one consumer
\* class that share the cache, the handler returns at most once for each
\* message.
C6_Original ==
    \A m \in Msgs : handled[m] <= 1

----------------------------------------------------------------------------
(* C10 *)

\* C10, as stated: constructing an Event with `ordered` neither None nor a
\* string raises ValueError and makes no Event; with `ordered` None or a
\* string it makes an Event that holds that value.
C10_Original ==
    event.called =>
        IF event.ordered.type \notin {"NoneType", "str"}
        THEN event.raised = "ValueError" /\ ~event.obj.made
        ELSE /\ event.raised = "none"
             /\ event.obj.made
             /\ event.obj.ordered = event.ordered
----------------------------------------------------------------------------
(* C11 *)

\* no consume loop runs: the other components are exercised on their own
InitIdle == InitEvent

ConsumerNext ==
    \/ \E t \in EventTypes : Register(t)
    \/ \E manifest \in Manifests : AcceptsCall(manifest)

ConsumerSpec == InitIdle /\ [][ConsumerNext]_vars

\* C11: for every accepts(m) call, listens_to() holds exactly the names of
\* the types with a registered handler, `object` left out, and the call
\* returns true exactly when there is no such name or m is one of them; so a
\* consumer with no registered handler accepts every manifest.
C11_AcceptsIffListened ==
    accepted.called =>
        LET handlers == {t \in Range(accepted.registry) : t # ObjectType}
            names == {PyStr(t.name) : t \in handlers}
        IN  /\ Range(ListensTo(accepted.registry)) = names
            /\ accepted.result <=> (names = {} \/ accepted.manifest \in names)
            /\ handlers = {} => accepted.result

\* C11 witness: a consumer with a handler for OrderCreated only was asked
\* about OrderCancelled and rejected it
C11_Witness ==
    /\ accepted.called
    /\ Range(accepted.registry) =
           {ObjectType, [id |-> "orders.OrderCreated", name |-> "OrderCreated"]}
    /\ accepted.manifest = PyStr("OrderCancelled")
    /\ ~accepted.result
----------------------------------------------------------------------------
(* C12, C20 *)

NormalizerNext ==
    \/ \E id \in MessageIds, content \in Contents, name \in OptionalNames :
           RetrieveDirect(id, content, name)
    \/ \E id \in MessageIds, content \in Contents, name \in RoutingNames :
           RetrieveForwarded(id, content, name)
    \/ \E id \in MessageIds, body \in OtherBodies, attributes \in OtherAttributes :
           RetrieveOther(id, body, attributes)
    \/ \E raws \in RawBatches : RetrieveMessages(raws)

NormalizerSpec == InitIdle /\ [][NormalizerNext]_vars

\* the (content, manifest) pair of a normalization that did not raise
Pair(r) == <<r.raised, r.message.content, r.message.manifest>>

\* C12: a message retrieved after queue_publish or after a topic forwarded
\* it, published with content c and a (non-empty) event type name n, is
\* normalized to content c and manifest n; and the forwarding envelope and
\* the directly published message of the same c and n are normalized to the
\* same pair.
C12_SamePair ==
    normalized.called /\ normalized.path \in {"queue_publish", "publish"}
        /\ Truthy(normalized.event_type_name) =>
            /\ normalized.raised = "none"
            /\ normalized.message.content = normalized.content
            /\ normalized.message.manifest = normalized.event_type_name
            /\ Pair(ConstructMessage(ForwardedMessage(normalized.raw.message_id,
                        normalized.content, normalized.event_type_name)))
               = Pair(ConstructMessage(DirectMessage(normalized.raw.message_id,
                        normalized.content, normalized.event_type_name)))

\* C12 witness: a directly published message whose content is itself a JSON
\* text was normalized, its manifest taken from the transport-level attribute
C12_Witness ==
    /\ normalized.called
    /\ normalized.path = "queue_publish"
    /\ normalized.content = JsonDumps(PyDict([value |-> PyInt("3")]))
    /\ normalized.event_type_name = PyStr("BananaEvent")
    /\ normalized.message.manifest = PyStr("BananaEvent")

\* v is a dict that holds the key
DictHas(v, key) == v.type = "dict" /\ key \in DOMAIN v.items

\* the value at v[k1][k2] where both levels exist, the empty string otherwise
NameAt(v, k1, k2) ==
    IF DictHas(v, k1) /\ DictHas(v.items[k1], k2) THEN v.items[k1].items[k2]
    ELSE PyStr("")

\* C20, as stated: for every raw message _construct_message returns a
\* Message whose content is the raw body if the body does not parse, the
\* nested 'Message' if the parsed body has one at its top level, the parsed
\* body otherwise; whose manifest is the nested event_type value of the
\* wrapper if not empty, else the transport-level event_type, else the empty
\* string; and whose message_id is the transport message id.
C20_Original ==
    normalized.called =>
        LET raw == normalized.raw
            loaded == JsonLoads(raw.body)
            parsed == loaded.value
            wrapper == loaded.raised = "none" /\ DictHas(parsed, "Message")
            content == IF loaded.raised # "none" THEN raw.body
                       ELSE IF wrapper THEN parsed.items["Message"] ELSE parsed
            nestedName == IF wrapper /\ DictHas(parsed, "MessageAttributes")
                          THEN NameAt(parsed.items["MessageAttributes"], "event_type", "Value")
                          ELSE PyStr("")
            transportName == NameAt(raw.message_attributes, "event_type", "StringValue")
            manifest == IF Truthy(nestedName) THEN nestedName
                        ELSE IF Truthy(transportName) THEN transportName ELSE PyStr("")
        IN  /\ normalized.raised = "none"
            /\ normalized.message =
                   [message_id |-> raw.message_id, content |-> content,
                    manifest |-> manifest]
----------------------------------------------------------------------------
(* C13 *)

FifoNext ==
    \/ \E n \in 1..MaxBatch : FifoBackendInit(n)
    \/ \E content \in FifoContents, id \in OptionalDedupIds : FifoPublish(content, id)
    \/ FifoDrain
    \/ \E k \in 1..MaxBatch : FifoRetrieve(k)
    \/ FifoRetrieveEmpty
    \/ FifoAcknowledge

FifoSpec == InitIdle /\ [][FifoNext]_vars

\* no two elements of s are equal
Distinct(s) == \A i, j \in 1..Len(s) : i # j => s[i] # s[j]

\* s is a prefix of t
IsPrefix(s, t) == Len(s) <= Len(t) /\ SubSeq(t, 1, Len(s)) = s

----------------------------------------------------------------------------
(* C14, C16, C17 *)

InfraNext ==
    \/ \E queue_name \in QueueNames,
          topics_to_bind \in {<<>>, <<"dev-topic">>},
          filter_events \in FilterEvents,
          dead_letter_queue_name \in {<<>>} \cup DeadLetterQueueNames :
           DeclareQueue(queue_name, topics_to_bind, filter_events, dead_letter_queue_name)
    \/ \E name \in RoutingNames : TopicForward("dev-topic", name)

InfraSpec == InitIdle /\ [][InfraNext]_vars

\* the queues bound to the topic; declared.bound holds for each the
\* filter_events of the latest declare_queue that bound it
BoundQueues == {q \in QueueNames : declared.bound[q].type # "unbound"}

\* C14, as stated: an event published to the topic reaches a queue declared
\* with filter_events F only if its event_type_name is in F, reaches every
\* queue declared without filter_events, and reaches no queue twice.
C14_Original ==
    forwarded.called =>
        \A q \in BoundQueues :
            LET F == declared.bound[q]
            IN  /\ F # PyNone /\ forwarded.copies[q] > 0 =>
                       InList(forwarded.event_type_name, F.elems)
                /\ F = PyNone => forwarded.copies[q] = 1
                /\ forwarded.copies[q] <= 1

\* C14: an event published to the topic reaches a queue declared with a
\* non-empty filter_events F only if its event_type_name is in F, reaches
\* every queue declared without filter_events or with an empty one, and
\* reaches no queue twice.
C14_TopicFilter ==
    forwarded.called =>
        \A q \in BoundQueues :
            LET F == declared.bound[q]
            IN  /\ Truthy(F) /\ forwarded.copies[q] > 0 =>
                       InList(forwarded.event_type_name, F.elems)
                /\ ~Truthy(F) => forwarded.copies[q] = 1
                /\ forwarded.copies[q] <= 1

\* C14 witness: a BananaEvent was published; the queue that filters on
\* OrderCreated did not get it, the queue declared twice without a filter
\* got it once
C14_Witness ==
    /\ forwarded.called
    /\ forwarded.event_type_name = PyStr("BananaEvent")
    /\ declared.bound[<<"dev-queue">>] = PyList(<<PyStr("OrderCreated")>>)
    /\ forwarded.copies[<<"dev-queue">>] = 0
    /\ declared.bound[<<"dev-queue", ".fifo">>] = PyNone
    /\ forwarded.copies[<<"dev-queue", ".fifo">>] = 1
    /\ declared.again
    /\ declared.args.topics_to_bind = <<"dev-topic">>
    /\ declared.args.queue_name = <<"dev-queue", ".fifo">>

\* C16: a declare_queue call with the arguments of the call before it
\* creates no queue, returns the handles that call returned, and leaves the
\* queues with their attributes (the redrive policy among them) and the
\* subscriptions with their filter policy as they were; no queue is created
\* twice.
C16_Idempotent ==
    /\ [][declared'.again =>
              /\ sqs' = sqs
              /\ sns' = sns
              /\ declared'.ret = declared.ret]_vars
    /\ [](\A name \in DOMAIN sqs : sqs[name].created <= 1)

\* C16 witness: a queue was declared twice with the same topic, filter and
\* dead-letter queue name
C16_Witness ==
    /\ declared.called
    /\ declared.again
    /\ declared.args.topics_to_bind # <<>>
    /\ Truthy(declared.args.filter_events)
    /\ declared.args.dead_letter_queue_name # <<>>
    /\ Len(sns) = 1

\* C17, as stated: after declare_queue with a '.fifo' queue name and a
\* '.fifo' dead-letter queue name the main queue has FifoQueue 'true' and
\* ContentBasedDeduplication 'true', the dead-letter queue has FifoQueue
\* 'true' and ContentBasedDeduplication 'false'; a queue whose name lacks
\* the suffix has neither attribute.
C17_Original ==
    /\ declared.called /\ EndsWith(declared.args.queue_name, ".fifo")
           /\ declared.args.dead_letter_queue_name # <<>>
           /\ EndsWith(declared.args.dead_letter_queue_name, ".fifo") =>
        LET main == sqs[declared.args.queue_name].attributes
            dead == sqs[declared.args.dead_letter_queue_name].attributes
        IN  /\ main["FifoQueue"] = "true"
            /\ main["ContentBasedDeduplication"] = "true"
            /\ dead["FifoQueue"] = "true"
            /\ dead["ContentBasedDeduplication"] = "false"
    /\ \A name \in DOMAIN sqs :
           sqs[name].exists /\ ~EndsWith(name, ".fifo") =>
               {"FifoQueue", "ContentBasedDeduplication"} \cap DOMAIN sqs[name].attributes = {}
----------------------------------------------------------------------------
(* C15 *)

PublishNext ==
    \/ \E content \in Contents, name \in RoutingNames \cup {PyStr("PaymentMade")},
          extra_attributes \in ExtraAttributes, outcome \in Outcomes :
           BackendPublish(content, name, extra_attributes, outcome)
    \/ \E content \in Contents, name \in RoutingNames, is_event \in BOOLEAN,
          outcome \in Outcomes :
           LegacyPublish(content, name, is_event, outcome)

PublishSpec == InitIdle /\ [][PublishNext]_vars

\* the event_type attribute of the message given to the infrastructure
SentEventType ==
    IF "MessageAttributes" \in DOMAIN published.args
    THEN NameAt(published.args["MessageAttributes"], "event_type", "StringValue")
    ELSE PyStr("")

\* the event_type entry of extra_attributes['message_attributes'], if any
ExtraEventType ==
    NameAt(NameAt([type |-> "dict", items |-> [x |-> published.extra_attributes]],
                  "x", "message_attributes"),
           "event_type", "StringValue")

\* C15, as stated: every publish gives the infrastructure a message whose
\* event_type attribute is event_type_name, calls it exactly once, and
\* raises ConnectionError exactly when the response has no message identifier.
C15_Original ==
    published.called =>
        /\ SentEventType = published.event_type_name
        /\ published.calls = 1
        /\ published.raised = "ConnectionError" <=> published.outcome = "no MessageId"

\* C15: ElasticMQBackend.publish gives the infrastructure a message whose
\* event_type attribute is event_type_name, or the event_type entry of
\* extra_attributes['message_attributes'] where there is one;
\* MessagePublisher.publish sends no attribute and, given what is not an
\* Event, returns False and makes no call.  Every other publish calls the
\* infrastructure exactly once and raises ConnectionError exactly when the
\* response has no message identifier.
C15_Publish ==
    published.called =>
        /\ published.publisher = "ElasticMQBackend" =>
               SentEventType = IF Truthy(ExtraEventType) THEN ExtraEventType
                               ELSE published.event_type_name
        /\ published.publisher = "MessagePublisher" => SentEventType = PyStr("")
        /\ IF published.is_event
           THEN /\ published.calls = 1
                /\ published.raised = "ConnectionError"
                       <=> published.outcome = "no MessageId"
           ELSE /\ published.calls = 0
                /\ published.raised = "none"
                /\ published.returned = [type |-> "bool", val |-> "False"]

\* C15 witness: the backend published with extra message attributes that do
\* not name an event type, the response had no MessageId, and the call failed
\* with ConnectionError after one call
C15_Witness ==
    /\ published.called
    /\ published.publisher = "ElasticMQBackend"
    /\ "trace" \in DOMAIN published.args["MessageAttributes"].items
    /\ SentEventType = published.event_type_name
    /\ published.outcome = "no MessageId"
    /\ published.calls = 1
    /\ published.raised = "ConnectionError"
----------------------------------------------------------------------------
(* C18 *)

LegacyNext ==
    \/ \E m \in DOMAIN LegacyBodies : LegacyArrive(m)
    \/ \E m \in DOMAIN LegacyBodies : LegacyReceive(m)
    \/ LegacyReceiveNone
    \/ \E deserializes \in BOOLEAN : LegacyLoads(deserializes)
    \/ \E raises \in BOOLEAN : LegacyProcess(raises)

LegacySpec == InitIdle /\ [][LegacyNext]_vars

\* C18, as stated: a message is deleted from the queue only after its event
\* was deserialized and processed, and a message whose deserialization
\* failed or that has no event_type_name is still in the queue.
C18_Original ==
    /\ \A m \in DOMAIN legacyQueue :
           legacyQueue[m] = "deleted" => m \in legacy.processed
    /\ \A m \in legacy.failed : legacyQueue[m] # "deleted"
----------------------------------------------------------------------------
(* C19 *)

\* C19, as stated: an Event made with no event_type_name argument has the
\* class-level name of its class as its event_type_name, so the attribute of
\* the instance and get_event_type_name() agree.
C19_Original ==
    event.called /\ ~event.explicit /\ event.obj.made =>
        event.obj.event_type_name = GetEventTypeName(event.cls)
----------------------------------------------------------------------------
(* C21 *)

\* C21, as stated: the dedup check comes before deserialization: a dispatch
\* of a message whose dedup key is in the cache does not call deserialize;
\* deserialize is called only where the key is not in the cache.
C21_Original ==
    [][\A c \in ConsumerIds, m \in Msgs :
        DispatchStep(c, m) /\ InCache(c, m, cache) => ev'.deser = "none"]_vars
----------------------------------------------------------------------------
(* C22 *)

\* a consumer whose class registers handlers polls the queue
RoutedNext ==
    \/ Next
    \/ \E t \in EventTypes : Register(t)

RoutedSpec == Init /\ [][RoutedNext]_vars

\* C22, as stated: the dispatch of a message whose manifest the consumer does
\* not accept calls neither deserialize nor the handler, stores no dedup key
\* and does not acknowledge the message.
C22_Original ==
    [][\A c \in ConsumerIds, m \in Msgs :
        DispatchStep(c, m) /\ ~Accepts(registry, ManifestOf(m)) =>
            /\ ev'.deser = "none"
            /\ ev'.handler = "none"
            /\ ev'.store = "none"
            /\ ev'.ack = "none"
            /\ cache' = cache
            /\ acked' = acked]_vars
----------------------------------------------------------------------------
(* C23 *)

\* C23: a dispatch that finds the dedup key in the cache invokes neither the
\* handler nor acknowledge and leaves the cache and the queue as they were;
\* so a message that was processed and cached and whose acknowledge failed is
\* not acknowledged by a later dispatch to that consumer while the key is in
\* the cache.
C23_HitFrame ==
    [][\A c \in ConsumerIds, m \in Msgs :
        DispatchStep(c, m) /\ MessageKey(c, m) \in cache =>
            /\ ev'.handler = "none"
            /\ ev'.store = "none"
            /\ ev'.ack = "none"
            /\ cache' = cache
            /\ UNCHANGED queueVars]_vars

\* C23 witness: a message whose handler had returned and whose key had been
\* stored, but whose acknowledge had failed, was delivered again, deserialized
\* and skipped on the hit: it is still in flight and not acknowledged
C23_Witness ==
    /\ ev.kind = "dispatch"
    /\ ev.deser = "ok"
    /\ ev.hit
    /\ ev.ack = "none"
    /\ MessageKey(ev.c, ev.m) \in cache
    /\ ev.m \in inflight
----------------------------------------------------------------------------
(* C24 *)

\* C24, as stated: whenever a message is acknowledged its dedup key is in
\* the cache, also where the cache store failed.
C24_Original ==
    [][\A c \in ConsumerIds, m \in Msgs :
        DispatchStep(c, m) /\ ev'.ack # "none" => MessageKey(c, m) \in cache']_vars

\* C24: whenever acknowledge is called the cache store was called before it
\* in the same dispatch, and the dedup key is in the cache unless that store
\* failed.
C24_StoreBeforeAck ==
    [][\A c \in ConsumerIds, m \in Msgs :
        DispatchStep(c, m) /\ ev'.ack # "none" =>
            /\ ev'.store # "none"
            /\ (ev'.store = "ok" => MessageKey(c, m) \in cache')]_vars

\* C24 witness: a dispatch stored the key and then acknowledged the message,
\* and another whose store failed acknowledged its message all the same
C24_Witness ==
    /\ ev.kind = "dispatch"
    /\ ev.store = "raise"
    /\ ev.ack = "ok"
    /\ ev.m \in acked
    /\ MessageKey(ev.c, ev.m) \notin cache
    /\ \E m \in acked : MessageKey(ev.c, m) \in cache
----------------------------------------------------------------------------
(* C25 *)

\* C25, as stated: retrieve_messages normalizes every raw message of the
\* batch and raises for none, whatever the body and the attributes: it
\* returns one Message for each raw message.
C25_Original ==
    retrieved.called =>
        /\ retrieved.raised = "none"
        /\ Len(retrieved.messages) = Len(retrieved.raws)
----------------------------------------------------------------------------
(* C26 *)

\* one consumer polls; consume_loop is given any hooks, or none
InitHooks ==
    /\ consumers = {"A"}
    /\ limit = NumSharedMsgs
    /\ hasDLQ = FALSE
    /\ InitLoop
    /\ \E on_exception \in HookKinds, after_consume \in HookKinds :
           hooks = HooksGiven(on_exception, after_consume)

HookSpec == InitHooks /\ [][Next]_vars

\* the calls of on_exception due in consumer c's iteration
DueOnException(c) ==
    IF hooks.on_exception # "None" /\ exc[c] # "none" THEN 1 ELSE 0

\* the calls of after_consume due in an iteration
DueAfterConsume == IF hooks.after_consume # "None" THEN 1 ELSE 0

\* C26: in every iteration of consume_loop on_exception, when given, is
\* called exactly once, with the error, where consume_event raised and not
\* at all where it returned, and before after_consume; after_consume, when
\* given, is called exactly once, after consume_event has finished, whether
\* it returned or raised, and before the next poll starts.
C26_Hooks ==
    [][\A c \in ConsumerIds :
        LET now == hooks.calls[c]
            next == hooks'.calls[c]
        IN  \* a call of on_exception
            /\ next.on_exception > now.on_exception =>
                   /\ pc[c] = "except"
                   /\ exc[c] # "none"
                   /\ next.arg = exc[c]
                   /\ now.on_exception = 0
                   /\ now.after_consume = 0
            \* a call of after_consume
            /\ next.after_consume > now.after_consume =>
                   /\ pc[c] = "finally"
                   /\ batch[c] = <<>>
                   /\ now.after_consume = 0
                   /\ now.on_exception = DueOnException(c)
            \* the iteration ends
            /\ pc[c] = "finally" /\ pc'[c] # "finally" =>
                   /\ next.after_consume = DueAfterConsume
                   /\ next.on_exception = DueOnException(c)
            \* the next poll starts
            /\ pc[c] = "poll" /\ pc'[c] # "poll" /\ now.ran =>
                   /\ now.after_consume = DueAfterConsume
                   /\ now.on_exception = DueOnException(c)]_vars

\* C26 witness: in one iteration the retrieval raised, on_exception was
\* called with the error and then after_consume, each once, and the consumer
\* is about to poll again
C26_Witness ==
    /\ pc["A"] = "poll"
    /\ exc["A"] = "retrieve_messages"
    /\ hooks.calls["A"].arg = "retrieve_messages"
    /\ hooks.calls["A"].on_exception = 1
    /\ hooks.calls["A"].after_consume = 1

====
